---- MODULE Spec2Model ----
(***************************************************************************)
(* The tool registry of my_demo/tool_registry.py: register_tool,          *)
(* dispatch_tool and get_tools over the two module-level tables            *)
(* _TOOL_HOOKS and _TOOL_DESCRIPTIONS.                                     *)
(*                                                                         *)
(* Python strings are sequences of text fragments, so that concatenation   *)
(* is \o and "contains" is membership of a fragment.  Mutable Python       *)
(* objects (dict, list) live on a heap and are held by reference, so that  *)
(* sharing between the registry and a structure handed to a caller is      *)
(* something the model can get wrong.                                      *)
(***************************************************************************)
EXTENDS Integers, Sequences, FiniteSets, TLC

VARIABLES TOOL_HOOKS, heap, view, result, mutations

vars == <<TOOL_HOOKS, heap, view, result, mutations>>

\* How many times the caller edits one structure returned by get_tools.
MaxMutations == 2

-----------------------------------------------------------------------------
\* Python values

StrVal(frags) == [t |-> "str", s |-> frags, n |-> 0, items |-> <<>>]
IntVal(k) == [t |-> "int", s |-> <<>>, n |-> k, items |-> <<>>]
BoolVal(b) == [t |-> "bool", s |-> <<>>, n |-> IF b THEN 1 ELSE 0, items |-> <<>>]
NoneVal == [t |-> "NoneType", s |-> <<>>, n |-> 0, items |-> <<>>]
TupleVal(xs) == [t |-> "tuple", s |-> <<>>, n |-> 0, items |-> xs]
\* An object whose __str__ raises (str() of it does not return).
Unprintable == [t |-> "Unprintable", s |-> <<>>, n |-> 0, items |-> <<>>]

isinstance(v, cls) == v.t = cls

\* Exceptions: isException is FALSE for a BaseException that is not an
\* Exception (SystemExit, KeyboardInterrupt).
Exc(type, msg, isExc) == [type |-> type, msg |-> msg, isException |-> isExc]
NoExc == Exc("", <<>>, TRUE)

Return(v) == [kind |-> "return", val |-> v, exc |-> NoExc]
Raise(e) == [kind |-> "raise", val |-> NoneVal, exc |-> e]

\* str(v)
PyStr(v) ==
    CASE v.t = "str" -> Return(v)
      [] v.t = "int" -> Return(StrVal(<<ToString(v.n)>>))
      [] v.t = "bool" -> Return(StrVal(<<IF v.n = 1 THEN "True" ELSE "False">>))
      [] v.t = "NoneType" -> Return(StrVal(<<"None">>))
      [] v.t = "Unprintable" -> Raise(Exc("ValueError", <<"__str__ failed">>, TRUE))

Whitespace == {" ", "   ", "\n", "\n    "}

RECURSIVE lstrip(_)
lstrip(s) == IF s # <<>> /\ Head(s) \in Whitespace THEN lstrip(Tail(s)) ELSE s

RECURSIVE rstrip(_)
rstrip(s) ==
    IF s # <<>> /\ s[Len(s)] \in Whitespace
    THEN rstrip(SubSeq(s, 1, Len(s) - 1))
    ELSE s

\* str.strip()
strip(s) == rstrip(lstrip(s))

\* traceback.format_exc() while handling e
format_exc(e) ==
    StrVal(<<"Traceback (most recent call last):\n", e.type, ": ">> \o e.msg)

-----------------------------------------------------------------------------
\* Types and annotations

\* A type object: generic is isinstance(typ, GenericAlias).
TypeObj(name, repr, generic) == [name |-> name, repr |-> repr, generic |-> generic]
NoType == TypeObj("", "", FALSE)
str_t == TypeObj("str", "<class 'str'>", FALSE)
int_t == TypeObj("int", "<class 'int'>", FALSE)
list_str_t == TypeObj("list", "list[str]", TRUE)
Annotated_t == TypeObj("Annotated", "<class 'typing.Annotated'>", FALSE)

\* A parameter annotation: none, a bare type T, or Annotated[T, meta...].
EmptyAnn == [kind |-> "empty", base |-> NoType, meta |-> <<>>]
PlainAnn(T) == [kind |-> "plain", base |-> T, meta |-> <<>>]
Annotated(T, meta) == [kind |-> "Annotated", base |-> T, meta |-> meta]

\* typing.get_origin
get_origin(annotation) ==
    CASE annotation.kind = "Annotated" -> Annotated_t
      [] annotation.kind = "plain" /\ annotation.base.generic ->
            TypeObj(annotation.base.name, "<class 'list'>", FALSE)
      [] OTHER -> NoType

\* typing.get_args(annotation)[1] of an Annotated: its first metadata item
get_args_1(annotation) == annotation.meta[1]

\* str(typ) if isinstance(typ, GenericAlias) else typ.__name__
TypeTag(typ) == IF typ.generic THEN typ.repr ELSE typ.name

-----------------------------------------------------------------------------
\* Callables

Param(name, annotation) == [name |-> name, annotation |-> annotation]
Func(name, doc, params, body) ==
    [name |-> name, doc |-> doc, params |-> params, body |-> body]

\* inspect.getdoc: None without a docstring, else the docstring with its
\* indentation and its leading and trailing blank lines removed (cleandoc)
getdoc(func) == IF func.doc.t = "NoneType" THEN NoneVal ELSE StrVal(strip(func.doc.s))

Meta(desc, req) == TupleVal(<<StrVal(<<desc>>), BoolVal(req)>>)

get_weather ==
    Func("get_weather",
         StrVal(<<"\n    ", "Get the current weather for city_name", "\n    ">>),
         <<Param("city_name",
                 Annotated(str_t, <<Meta("The name of the city to be queried", TRUE)>>))>>,
         "get_weather")

generate_md5 ==
    Func("generate_md5",
         StrVal(<<"\n    ", "Generate MD5 hash of the provided string.", "\n    ">>),
         <<Param("input_string",
                 Annotated(str_t, <<Meta("The input string to hash", TRUE)>>))>>,
         "generate_md5")

search_knowledge_base ==
    Func("search_knowledge_base",
         StrVal(<<"\n    ",
                  "Search the knowledge base for documents similar to the provided query text.",
                  "\n    ">>),
         <<Param("query_text",
                 Annotated(str_t,
                           <<Meta("The text to query in the net security knowledge base", TRUE)>>))>>,
         "search_knowledge_base")

query_ip ==
    Func("query_ip",
         StrVal(<<"\n    ", "Query information about a given IP address.", "\n    ">>),
         <<Param("ip_address", Annotated(str_t, <<Meta("The IP address to query", TRUE)>>))>>,
         "query_ip")

\* The tools the module registers when it is imported, in order.
Shipped == <<get_weather, generate_md5, search_knowledge_base, query_ip>>

\* Callables a program may hand to register_tool after import.  Well-formed:
F_echo ==
    Func("f", StrVal(<<"Echo x.">>),
         <<Param("x", Annotated(str_t, <<Meta("text", TRUE)>>)),
           Param("y", Annotated(list_str_t, <<Meta("tags", FALSE)>>))>>,
         "echo")
F_fail ==
    Func("f", StrVal(<<"\n    ", "Always fails.", "\n">>),
         <<Param("x", Annotated(int_t, <<Meta("", FALSE)>>))>>,
         "fail")
F_exit == Func("f", StrVal(<<"Stops the process.">>), <<>>, "exit")
F_obj == Func("f", StrVal(<<"Returns an object.">>), <<>>, "obj")
\* No usable docstring:
N_nodoc == Func("f", NoneVal, <<>>, "num")
N_blank == Func("f", StrVal(<<"\n    ", "   ">>), <<>>, "num")
\* Malformed parameter declarations:
B_noann ==
    Func("f", StrVal(<<"Second parameter bare.">>),
         <<Param("x", Annotated(str_t, <<Meta("text", TRUE)>>)), Param("y", EmptyAnn)>>,
         "echo")
B_plain == Func("f", StrVal(<<"Plain type.">>), <<Param("x", PlainAnn(str_t))>>, "echo")
B_nontuple ==
    Func("generate_md5", StrVal(<<"Metadata is a string.">>),
         <<Param("input_string", Annotated(str_t, <<Meta("any", TRUE)>>)),
           Param("salt", Annotated(str_t, <<StrVal(<<"just a description">>)>>))>>,
         "num")
B_triple ==
    Func("f", StrVal(<<"Three metadata items.">>),
         <<Param("x", Annotated(str_t,
                  <<TupleVal(<<StrVal(<<"text">>), BoolVal(TRUE), IntVal(0)>>)>>))>>,
         "num")
B_desc ==
    Func("f", StrVal(<<"Description is a number.">>),
         <<Param("x", Annotated(str_t, <<TupleVal(<<IntVal(3), BoolVal(TRUE)>>)>>))>>,
         "echo")
B_req ==
    Func("generate_md5", StrVal(<<"Required is a number.">>),
         <<Param("input_string", Annotated(str_t, <<Meta("text", TRUE)>>)),
           Param("y", Annotated(int_t, <<TupleVal(<<StrVal(<<"count">>), IntVal(1)>>)>>))>>,
         "echo")

Candidates ==
    {F_echo, F_fail, F_exit, F_obj, N_nodoc, N_blank,
     B_noann, B_plain, B_nontuple, B_triple, B_desc, B_req}

-----------------------------------------------------------------------------
\* The heap of mutable objects

Addr(arena, tool, slot) == [arena |-> arena, tool |-> tool, slot |-> slot]
NullAddr == Addr("", "", 0)

\* A dict value or list element: an immutable value held inline, or a
\* reference to a dict or list on the heap.
ValCell(v) == [ref |-> FALSE, addr |-> NullAddr, val |-> v]
RefCell(a) == [ref |-> TRUE, addr |-> a, val |-> NoneVal]

DictObj(d) == [kind |-> "dict", d |-> d, l |-> <<>>]
ListObj(l) == [kind |-> "list", d |-> <<>>, l |-> l]

\* The object the module-level name _TOOL_DESCRIPTIONS is bound to.
TOOL_DESCRIPTIONS == Addr("live", "", 0)

\* d[k] = c
SetItem(d, k, c) == [j \in DOMAIN d \cup {k} |-> IF j = k THEN c ELSE d[j]]
\* del d[k]
DelItem(d, k) == [j \in DOMAIN d \ {k} |-> d[j]]

\* The cells an object holds.
Cells(o) == {o.d[k] : k \in DOMAIN o.d} \cup {o.l[i] : i \in DOMAIN o.l}

\* The addresses reachable from address a in heap h.
RECURSIVE Reach(_, _)
Reach(h, a) ==
    IF a \notin DOMAIN h THEN {}
    ELSE {a} \cup UNION {Reach(h, c.addr) : c \in {x \in Cells(h[a]) : x.ref}}

\* The plain content of a cell: dicts as functions, lists as sequences.
RECURSIVE Deref(_, _)
Deref(h, c) ==
    IF ~c.ref THEN c.val
    ELSE LET o == h[c.addr]
         IN  IF o.kind = "dict"
             THEN [k \in DOMAIN o.d |-> Deref(h, o.d[k])]
             ELSE [i \in DOMAIN o.l |-> Deref(h, o.l[i])]
-----------------------------------------------------------------------------
\* register_tool

TypeErr(msg) == Exc("TypeError", msg, TRUE)

\* check_param without its last test (the required flag is not looked at).
check_param_lax(param) ==
    LET annotation == param.annotation
    IN  IF annotation.kind = "empty"
        THEN TypeErr(<<"Parameter ", param.name, " missing type annotation">>)
        ELSE IF get_origin(annotation) # Annotated_t
        THEN TypeErr(<<"Annotation type for ", param.name, " must be typing.Annotated">>)
        ELSE LET metadata == get_args_1(annotation)
             IN  IF ~isinstance(metadata, "tuple") \/ Len(metadata.items) # 2
                 THEN TypeErr(<<"Metadata for ", param.name,
                                " must be a tuple with two elements (description, required)">>)
                 ELSE IF ~isinstance(metadata.items[1], "str")
                 THEN TypeErr(<<"Description for ", param.name, " must be a string">>)
                 ELSE NoExc

\* The checks of one loop iteration, in order: the exception the iteration
\* raises, or NoExc.
check_param(param) ==
    LET name == param.name
        annotation == param.annotation
    IN  IF annotation.kind = "empty"
        THEN TypeErr(<<"Parameter ", name, " missing type annotation">>)
        ELSE IF get_origin(annotation) # Annotated_t
        THEN TypeErr(<<"Annotation type for ", name, " must be typing.Annotated">>)
        ELSE LET metadata == get_args_1(annotation)
             IN  IF ~isinstance(metadata, "tuple") \/ Len(metadata.items) # 2
                 THEN TypeErr(<<"Metadata for ", name,
                                " must be a tuple with two elements (description, required)">>)
                 ELSE IF ~isinstance(metadata.items[1], "str")
                 THEN TypeErr(<<"Description for ", name, " must be a string">>)
                 ELSE IF ~isinstance(metadata.items[2], "bool")
                 THEN TypeErr(<<"Required for ", name, " must be a bool">>)
                 ELSE NoExc

\* The dict one iteration appends to tool_params.
param_entry(param) ==
    LET typ == get_origin(param.annotation)
        metadata == get_args_1(param.annotation)
    IN  [k \in {"name", "description", "type", "required"} |->
            CASE k = "name" -> ValCell(StrVal(<<param.name>>))
              [] k = "description" -> ValCell(metadata.items[1])
              [] k = "type" -> ValCell(StrVal(<<TypeTag(typ)>>))
              [] k = "required" -> ValCell(metadata.items[2])]

\* for name, param in python_params.items(): ... from the i-th parameter on
RECURSIVE param_loop(_, _, _)
param_loop(python_params, i, tool_params) ==
    IF i > Len(python_params) THEN [exc |-> NoExc, tool_params |-> tool_params]
    ELSE LET e == check_param(python_params[i])
         IN  IF e # NoExc THEN [exc |-> e, tool_params |-> tool_params]
             ELSE param_loop(python_params, i + 1,
                             Append(tool_params, param_entry(python_params[i])))

Reverse(xs) == [i \in DOMAIN xs |-> xs[Len(xs) + 1 - i]]

\* The loop inserting at the front of tool_params instead of appending.
loop_params_prepending(python_params) ==
    LET looped == param_loop(python_params, 1, <<>>)
    IN  [exc |-> looped.exc, tool_params |-> Reverse(looped.tool_params)]

\* tool_params = []; for name, param in python_params.items(): ...
loop_params(python_params) == param_loop(python_params, 1, <<>>)

\* The objects of a new tool_def: the dict, its params list, one dict per
\* parameter.
tool_def_objects(tool_name, tool_description, tool_params) ==
    LET n == Len(tool_params)
        at(slot) == Addr("live", tool_name, slot)
    IN  [a \in {at(k) : k \in 0 .. n + 1} |->
            IF a.slot = 0
            THEN DictObj([k \in {"name", "description", "params"} |->
                            CASE k = "name" -> ValCell(StrVal(<<tool_name>>))
                              [] k = "description" -> ValCell(StrVal(tool_description))
                              [] k = "params" -> RefCell(at(1))])
            ELSE IF a.slot = 1
            THEN ListObj([i \in 1 .. n |-> RefCell(at(i + 1))])
            ELSE DictObj(tool_params[a.slot - 1])]

\* _TOOL_HOOKS.setdefault(tool_name, func): the first registration stays.
store_hook_first(hooks, tool_name, func) ==
    IF tool_name \in DOMAIN hooks THEN hooks ELSE SetItem(hooks, tool_name, func)

\* _TOOL_HOOKS[tool_name] = func
store_hook(hooks, tool_name, func) == SetItem(hooks, tool_name, func)

\* The description is not recorded.
store_description_skipped(h, tool_name, objs) == h

\* _TOOL_DESCRIPTIONS[tool_name] = tool_def; the tool_def this replaces is
\* referenced from nowhere else and is dropped.
store_description(h, tool_name, objs) ==
    LET old == {a \in DOMAIN h : a.arena = "live" /\ a.tool = tool_name}
        root == h[TOOL_DESCRIPTIONS]
    IN  [a \in (DOMAIN h \ old) \cup DOMAIN objs |->
            IF a \in DOMAIN objs THEN objs[a]
            ELSE IF a = TOOL_DESCRIPTIONS
            THEN DictObj(SetItem(root.d, tool_name,
                                 RefCell(Addr("live", tool_name, 0))))
            ELSE h[a]]

\* register_tool(func) from tables hooks and heap h: how the call ends and
\* the tables it leaves.
register(hooks, h, func) ==
    LET tool_name == func.name
        doc == getdoc(func)
    IN  IF doc.t = "NoneType"
        THEN [out |-> Raise(Exc("AttributeError",
                                <<"'NoneType' object has no attribute 'strip'">>, TRUE)),
              hooks |-> hooks, heap |-> h]
        ELSE LET tool_description == strip(doc.s)
                 looped == loop_params(func.params)
             IN  IF looped.exc # NoExc
                 THEN [out |-> Raise(looped.exc), hooks |-> hooks, heap |-> h]
                 ELSE [out |-> Return(NoneVal),
                       hooks |-> store_hook(hooks, tool_name, func),
                       heap |-> store_description(h, tool_name,
                                    tool_def_objects(tool_name, tool_description,
                                                     looped.tool_params))]

\* The tables after the decorators of the module have run, from the i-th.
RECURSIVE imported(_, _, _)
imported(hooks, h, i) ==
    IF i > Len(Shipped) THEN [hooks |-> hooks, heap |-> h]
    ELSE LET r == register(hooks, h, Shipped[i])
         IN  imported(r.hooks, r.heap, i + 1)
-----------------------------------------------------------------------------
\* dispatch_tool

\* A tool_params argument: a mapping of keyword arguments, or a value that
\* is no mapping (None, a list).
Kw(kw) == [mapping |-> TRUE, kw |-> kw]
NotMapping == [mapping |-> FALSE, kw |-> <<>>]

abc == StrVal(<<"abc">>)
five == IntVal(5)

\* hashlib.md5(s.encode()).hexdigest(), tabulated on the strings dispatched.
md5(s) == CASE s = <<"abc">> -> "900150983cd24fb0d6963f7d28e17f72"

\* The body of a callable on bound keyword arguments: the ways it can end.
\* An outbound HTTP call or the vector search either succeeds or fails, and
\* the adapter turns the failure into its returned string.
body(func, kw) ==
    CASE func.body = "get_weather" ->
            IF ~isinstance(kw["city_name"], "str")
            THEN {Raise(TypeErr(<<"City name must be a string">>))}
            ELSE {Return(StrVal(<<"{'current_condition': {...}}">>)),
                  Return(StrVal(<<"Error encountered while fetching weather data!\n">>
                      \o format_exc(Exc("ConnectionError", <<"wttr.in">>, TRUE)).s))}
      [] func.body = "generate_md5" ->
            IF ~isinstance(kw["input_string"], "str")
            THEN {Raise(TypeErr(<<"Input string must be a string">>))}
            ELSE {Return(StrVal(<<md5(kw["input_string"].s)>>))}
      [] func.body = "search_knowledge_base" ->
            IF ~isinstance(kw["query_text"], "str")
            THEN {Raise(TypeErr(<<"Query text must be a string">>))}
            ELSE {Return(StrVal(<<"[1]: ", "document">>)),
                  Return(StrVal(<<"Error encountered while searching the knowledge base: ",
                                  "index unavailable">>))}
      [] func.body = "query_ip" ->
            IF ~isinstance(kw["ip_address"], "str")
            THEN {Raise(TypeErr(<<"IP address must be a string">>))}
            ELSE {Return(StrVal(<<"Error encountered while querying IP address: ",
                                  "Invalid URL: No scheme supplied">>))}
      [] func.body = "echo" -> {Return(kw["x"])}
      [] func.body = "fail" -> {Raise(Exc("ValueError", <<"boom">>, TRUE))}
      [] func.body = "exit" -> {Raise(Exc("SystemExit", <<"0">>, FALSE))}
      [] func.body = "obj" -> {Return(Unprintable)}
      [] func.body = "num" -> {Return(IntVal(7))}

\* tool_call() : the arguments are not passed on.
call_without_arguments(tool_call, tool_params) ==
    LET made == <<[func |-> tool_call, kw |-> <<>>]>>
    IN  IF tool_call.params # <<>>
        THEN {[out |-> Raise(TypeErr(<<tool_call.name, "() missing arguments">>)),
               calls |-> made]}
        ELSE {[out |-> o, calls |-> made] : o \in body(tool_call, <<>>)}

\* tool_call(**tool_params): the ways the call can end, each with the
\* invocations of a registered callable it made.
call(tool_call, tool_params) ==
    IF ~tool_params.mapping
    THEN {[out |-> Raise(TypeErr(<<"argument after ** must be a mapping">>)),
           calls |-> <<>>]}
    ELSE LET made == <<[func |-> tool_call, kw |-> tool_params.kw]>>
         IN  IF DOMAIN tool_params.kw # {tool_call.params[i].name : i \in DOMAIN tool_call.params}
             THEN {[out |-> Raise(TypeErr(<<tool_call.name,
                                            "() got unexpected or missing arguments">>)),
                    calls |-> made]}
             ELSE {[out |-> o, calls |-> made] : o \in body(tool_call, tool_params.kw)}

\* The message of line 69 (without the backquotes around the name).
not_found(tool_name) ==
    StrVal(<<"Tool ", tool_name, " ", "not found", ". Please use a provided tool.">>)

\* The bare except clause: every exception is caught.
catches(e) == TRUE

\* ret = str(e): the message without the trace.
on_fault_message(e) == StrVal(e.msg)

\* ret = traceback.format_exc()
on_fault(e) == format_exc(e)

\* try: ret = ... except: ret = ...; return str(ret)
finish(o) ==
    IF o.kind = "raise"
    THEN IF catches(o.exc) THEN PyStr(on_fault(o.exc)) ELSE o
    ELSE PyStr(o.val)

\* tool_name in _TOOL_HOOKS
has_tool(hooks, tool_name) == tool_name \in DOMAIN hooks

\* dispatch_tool(tool_name, tool_params): the ways the call can end: what it
\* returns or raises (out), the invocations it made (calls) and how
\* tool_call(**tool_params) ended (raw).
dispatch(hooks, tool_name, tool_params) ==
    IF ~has_tool(hooks, tool_name)
    THEN {[out |-> Return(not_found(tool_name)), calls |-> <<>>, raw |-> Return(NoneVal)]}
    ELSE LET tool_call == hooks[tool_name]
         IN  {[out |-> finish(c.out), calls |-> c.calls, raw |-> c.out] :
                 c \in call(tool_call, tool_params)}

-----------------------------------------------------------------------------
\* get_tools

Reloc(a) == [a EXCEPT !.arena = "view"]

\* copy.copy(h[a]): a new object for a alone, holding the references a
\* holds.
shallow_copy(h, a) ==
    LET kept == {b \in DOMAIN h : b.arena # "view"}
    IN  [heap |-> [b \in kept \cup {Reloc(a)} |-> IF b \in kept THEN h[b] ELSE h[a]],
         addr |-> Reloc(a)]

\* copy.deepcopy(h[a]): a new object for every object reachable from a.  The
\* structure a caller held before is dropped.
deepcopy(h, a) ==
    LET src == Reach(h, a)
        kept == {b \in DOMAIN h : b.arena # "view"}
        moved(c) == IF c.ref THEN RefCell(Reloc(c.addr)) ELSE c
        copy(o) == [kind |-> o.kind,
                    d |-> [k \in DOMAIN o.d |-> moved(o.d[k])],
                    l |-> [i \in DOMAIN o.l |-> moved(o.l[i])]]
    IN  [heap |-> [b \in kept \cup {Reloc(x) : x \in src} |->
                      IF b \in kept THEN h[b]
                      ELSE copy(h[[b EXCEPT !.arena = "live"]])],
         addr |-> Reloc(a)]
\* get_tools(): the heap after the call and the address returned.
get_tools_copy(h) == deepcopy(h, TOOL_DESCRIPTIONS)

-----------------------------------------------------------------------------
\* The caller of get_tools editing the structure it was handed

tampered == ValCell(StrVal(<<"tampered">>))

\* The tool entry the caller edits.
Edited == {"f"}

\* The edits open to the caller on the structure at address v.
Edits(h, v) ==
    IF v \notin DOMAIN h THEN {}
    ELSE LET names == {k \in DOMAIN h[v].d \cap Edited : h[v].d[k].ref}
         IN  {[kind |-> "add", name |-> "injected"]}
             \cup {[kind |-> k, name |-> nm] :
                     k \in {"del", "description", "param", "clear"}, nm \in names}

\* One edit, made through the references the structure holds.
edit(h, v, e) ==
    LET td == h[v].d[e.name].addr
        params == h[td].d["params"].addr
        with(a, o) == [h EXCEPT ![a] = o]
    IN  CASE e.kind = "add" -> with(v, DictObj(SetItem(h[v].d, e.name, tampered)))
          [] e.kind = "del" -> with(v, DictObj(DelItem(h[v].d, e.name)))
          [] e.kind = "description" ->
                with(td, DictObj(SetItem(h[td].d, "description", tampered)))
          [] e.kind = "clear" -> with(params, ListObj(<<>>))
          [] e.kind = "param" ->
                IF h[params].l = <<>> THEN h
                ELSE LET p == h[params].l[1].addr
                     IN  with(p, DictObj(SetItem(h[p].d, "required", tampered)))

\* Objects reachable from neither the registry nor the caller's structure
\* are collected.
collect(h, v) ==
    LET keep == Reach(h, TOOL_DESCRIPTIONS) \cup Reach(h, v)
    IN  [a \in keep |-> h[a]]

-----------------------------------------------------------------------------
\* The state machine

NoFunc == Func("", NoneVal, <<>>, "")

\* The last operation: its arguments, how it ended (out), and for
\* register_tool the callable _TOOL_HOOKS held under the name before (prev),
\* for dispatch_tool the invocations made (calls) and how the tool call
\* ended (raw).
Res(op, func, tool_name, tool_params, out, calls, raw, prev) ==
    [op |-> op, func |-> func, tool_name |-> tool_name, tool_params |-> tool_params,
     out |-> out, calls |-> calls, raw |-> raw, prev |-> prev]

Done == Return(NoneVal)

AllFuncs == Candidates \cup {Shipped[i] : i \in DOMAIN Shipped}

\* The tool names dispatched: a shipped tool with an outbound call, the
\* shipped tool without one, the name registered after import, and a name
\* nothing is registered under.
ToolNames == {"get_weather", "generate_md5", "f", "nonexistent_tool"}

AllArgs(f, v) == Kw([k \in {f.params[i].name : i \in DOMAIN f.params} |-> v])

\* The tool_params values tried with a tool name.
ParamInputs(tool_name) ==
    {NotMapping, Kw(<<>>)}
    \cup {AllArgs(f, v) : f \in {g \in AllFuncs : g.name = tool_name}, v \in {abc, five}}

Init ==
    LET r == imported(<<>>, [a \in {TOOL_DESCRIPTIONS} |-> DictObj(<<>>)], 1)
    IN  /\ TOOL_HOOKS = r.hooks
        /\ heap = r.heap
        /\ view = NullAddr
        /\ mutations = 0
        /\ result = Res("import", NoFunc, "", NotMapping, Done, <<>>, Done, NoFunc)

register_tool(func) ==
    LET r == register(TOOL_HOOKS, heap, func)
    IN  /\ TOOL_HOOKS' = r.hooks
        /\ heap' = r.heap
        /\ result' = Res("register_tool", func, func.name, NotMapping, r.out, <<>>, Done,
                          IF func.name \in DOMAIN TOOL_HOOKS
                          THEN TOOL_HOOKS[func.name] ELSE NoFunc)
        /\ UNCHANGED <<view, mutations>>

dispatch_tool(tool_name, tool_params) ==
    /\ \E r \in dispatch(TOOL_HOOKS, tool_name, tool_params) :
          result' = Res("dispatch_tool", NoFunc, tool_name, tool_params,
                        r.out, r.calls, r.raw, NoFunc)
    /\ UNCHANGED <<TOOL_HOOKS, heap, view, mutations>>

get_tools ==
    LET r == get_tools_copy(heap)
    IN  /\ heap' = r.heap
        /\ view' = r.addr
        /\ mutations' = 0
        /\ result' = Res("get_tools", NoFunc, "", NotMapping, Done, <<>>, Done, NoFunc)
        /\ UNCHANGED TOOL_HOOKS

caller_edits(e) ==
    /\ view # NullAddr
    /\ mutations < MaxMutations
    /\ heap' = collect(edit(heap, view, e), view)
    /\ mutations' = mutations + 1
    /\ result' = Res("edit", NoFunc, e.name, NotMapping, Done, <<>>, Done, NoFunc)
    /\ UNCHANGED <<TOOL_HOOKS, view>>

Next ==
    \/ \E func \in Candidates : register_tool(func)
    \/ \E tool_name \in ToolNames :
          \E tool_params \in ParamInputs(tool_name) : dispatch_tool(tool_name, tool_params)
    \/ get_tools
    \/ \E e \in Edits(heap, view) : caller_edits(e)

Spec == Init /\ [][Next]_vars
-----------------------------------------------------------------------------
\* Properties

Range(xs) == {xs[i] : i \in DOMAIN xs}

\* What _TOOL_DESCRIPTIONS holds, as plain content.
Live == Deref(heap, RefCell(TOOL_DESCRIPTIONS))

\* What the structure the caller holds contains.
Held == Deref(heap, RefCell(view))

Registered(tool_name) == tool_name \in DOMAIN TOOL_HOOKS

\* A declaration with a parameter that has no annotation, an annotation that
\* is not Annotated, metadata that is no two-element tuple, a description
\* that is no string or a required flag that is no bool.
Malformed(func) ==
    \E i \in DOMAIN func.params :
        LET a == func.params[i].annotation
        IN  \/ a.kind # "Annotated"
            \/ a.meta[1].t # "tuple"
            \/ Len(a.meta[1].items) # 2
            \/ a.meta[1].items[1].t # "str"
            \/ a.meta[1].items[2].t # "bool"

\* The callable has no description, or one that is empty once stripped.
NoDescription(func) == func.doc.t = "NoneType" \/ strip(func.doc.s) = <<>>

Valid(func) == ~NoDescription(func) /\ ~Malformed(func)

\* The stored spec has the callable's name and one entry per declared
\* parameter, in declaration order, with its name, description and flag.
Shows(spec, func) ==
    /\ spec["name"] = StrVal(<<func.name>>)
    /\ DOMAIN spec["params"] = DOMAIN func.params
    /\ \A i \in DOMAIN func.params :
          LET entry == spec["params"][i]
              meta == func.params[i].annotation.meta[1]
          IN  /\ entry["name"] = StrVal(<<func.params[i].name>>)
              /\ entry["description"] = meta.items[1]
              /\ entry["required"] = meta.items[2]

\* C1: dispatch_tool never raises: every call, whatever the registry, the
\* tool name and the tool_params, ends by returning a string.
C1_DispatchNeverRaises ==
    result.op = "dispatch_tool" =>
        result.out.kind = "return" /\ result.out.val.t = "str"

\* C2: register_tool of a malformed declaration fails with an error and
\* leaves _TOOL_HOOKS and _TOOL_DESCRIPTIONS exactly as they were, also when
\* earlier parameters were valid and when the name was already registered.
C2_MalformedLeavesRegistry ==
    [][(result'.op = "register_tool" /\ Malformed(result'.func)) =>
          /\ result'.out.kind = "raise"
          /\ TOOL_HOOKS' = TOOL_HOOKS
          /\ Live' = Live
          /\ heap' = heap]_vars

\* A malformed declaration whose first parameter is valid, under a name that
\* is registered, has been refused.
C2_Witness ==
    /\ result.op = "register_tool"
    /\ Malformed(result.func)
    /\ Len(result.func.params) = 2
    /\ check_param(result.func.params[1]) = NoExc
    /\ result.prev # NoFunc
    /\ result.out.kind = "raise"

\* C3: register_tool of a callable whose description is absent or empty
\* fails and adds no entry to the registry.
C3_DescriptionRequired ==
    (result.op = "register_tool" /\ NoDescription(result.func)) =>
        /\ result.out.kind = "raise"
        /\ ~(Registered(result.func.name) /\ TOOL_HOOKS[result.func.name] = result.func)

\* C4: register_tool of a valid declaration succeeds and the stored spec has
\* the callable's name and one params entry per declared parameter, in
\* declaration order, with that parameter's name, description and flag.
C4_ValidIsStored ==
    (result.op = "register_tool" /\ Valid(result.func)) =>
        /\ result.out.kind = "return"
        /\ result.func.name \in DOMAIN Live
        /\ Shows(Live[result.func.name], result.func)

\* A valid declaration with two parameters that differ in description,
\* type and flag has been registered.
C4_Witness ==
    /\ result.op = "register_tool"
    /\ result.func = F_echo
    /\ result.out.kind = "return"
    /\ Len(Live["f"]["params"]) = 2

\* C5: get_tools returns a copy with one entry per registered tool that
\* shares no object with _TOOL_DESCRIPTIONS: no edit a caller makes to it
\* (adding or removing an entry, changing a description, editing or removing
\* a nested parameter entry) changes _TOOL_DESCRIPTIONS, so the next
\* get_tools returns what it would have returned without the edit.
C5_IndependentCopy ==
    [][/\ result'.op = "edit" => (Live' = Live /\ TOOL_HOOKS' = TOOL_HOOKS)
       /\ result'.op = "get_tools" =>
             /\ Held' = Live
             /\ Live' = Live
             /\ DOMAIN Held' = DOMAIN TOOL_HOOKS
             /\ Reach(heap', view') \cap Reach(heap', TOOL_DESCRIPTIONS) = {}]_vars

\* The caller has edited the entry of a registered tool in the structure it
\* holds, which now differs from the registry.
C5_Witness ==
    /\ result.op = "edit"
    /\ result.tool_name = "f"
    /\ Registered("f")
    /\ Held # Live

\* C6: registering a second tool under a registered name replaces the
\* first: the number of entries stays, get_tools shows the second tool's
\* spec under the name, and dispatch_tool invokes the callable registered
\* last, never another.
C6_LastWriteWins ==
    [][/\ (/\ result'.op = "register_tool"
           /\ result'.out.kind = "return"
           /\ Registered(result'.func.name)) =>
             /\ TOOL_HOOKS'[result'.func.name] = result'.func
             /\ DOMAIN TOOL_HOOKS' = DOMAIN TOOL_HOOKS
             /\ DOMAIN Live' = DOMAIN Live
             /\ Shows(Live'[result'.func.name], result'.func)
       /\ result'.op # "register_tool" => TOOL_HOOKS' = TOOL_HOOKS
       /\ (result'.op = "dispatch_tool" /\ Registered(result'.tool_name)) =>
             \A i \in DOMAIN result'.calls :
                 result'.calls[i].func = TOOL_HOOKS[result'.tool_name]
       /\ result'.op = "get_tools" =>
             \A n \in DOMAIN TOOL_HOOKS : Shows(Held'[n], TOOL_HOOKS[n])]_vars

\* A second, different callable has been registered under a registered name.
C6_Witness ==
    /\ result.op = "register_tool"
    /\ result.out.kind = "return"
    /\ result.prev \notin {NoFunc, result.func}
    /\ result.prev.body = "echo"

\* C7: when the tool call of a dispatch_tool raises, dispatch_tool returns a
\* string containing the diagnostic trace of the fault and leaves the
\* registry as it was, so that every later dispatch_tool is served as if the
\* failed call had not happened.
C7_FaultIsContained ==
    [][(result'.op = "dispatch_tool" /\ result'.raw.kind = "raise") =>
          /\ result'.out.kind = "return"
          /\ result'.out.val.t = "str"
          /\ "Traceback (most recent call last):\n" \in Range(result'.out.val.s)
          /\ result'.raw.exc.type \in Range(result'.out.val.s)
          /\ Range(result'.raw.exc.msg) \subseteq Range(result'.out.val.s)
          /\ TOOL_HOOKS' = TOOL_HOOKS
          /\ heap' = heap
          /\ \A n \in ToolNames : \A tp \in ParamInputs(n) :
                dispatch(TOOL_HOOKS', n, tp) = dispatch(TOOL_HOOKS, n, tp)]_vars

\* The body of a registered tool has raised during dispatch_tool.
C7_Witness ==
    /\ result.op = "dispatch_tool"
    /\ result.raw.kind = "raise"
    /\ result.raw.exc.type = "ValueError"
    /\ result.calls # <<>>

C9_TypeTagOfDeclaredType ==
    \A n \in DOMAIN TOOL_HOOKS : \A i \in DOMAIN TOOL_HOOKS[n].params :
        Live[n]["params"][i]["type"]
            = StrVal(<<TypeTag(TOOL_HOOKS[n].params[i].annotation.base)>>)

\* The keys of _TOOL_DESCRIPTIONS in heap h, and the "name" field of the
\* description stored under key k.
Keys(h) == DOMAIN h[TOOL_DESCRIPTIONS].d
StoredName(h, k) == Deref(h, h[TOOL_DESCRIPTIONS].d[k])["name"]

\* C10: the two tables have the same keys, every stored description's name
\* is the key it is stored under, and no operation removes a key.
C10_TablesAgree ==
    [][/\ DOMAIN TOOL_HOOKS = Keys(heap)
       /\ DOMAIN TOOL_HOOKS' = Keys(heap')
       /\ \A k \in Keys(heap) : StoredName(heap, k) = StrVal(<<k>>)
       /\ \A k \in Keys(heap') : StoredName(heap', k) = StrVal(<<k>>)
       /\ DOMAIN TOOL_HOOKS \subseteq DOMAIN TOOL_HOOKS']_vars

\* A registration has failed after another had added a key to both tables.
C10_Witness ==
    /\ result.op = "register_tool"
    /\ result.out.kind = "raise"
    /\ Registered("f")
    /\ "f" \in DOMAIN Live

====
